---- MODULE Spec2Model ----
(***************************************************************************)
(* Model of the meeting-room coordinator of smart-meeting-app:             *)
(* src/server/socket/index.js (room registry, join gatekeeper, host        *)
(* controls) over the Meeting documents of the store.                      *)
(***************************************************************************)
EXTENDS Integers, Sequences, FiniteSets, TLC

\* ------------------------------------------------------------------ bounds
NumSockets == 2      \* connection ids handed out by the transport
NumMeetings == 2     \* meeting codes in play
MaxInflight == 1     \* join-room handlers suspended on the store at once
NumRequests == 2     \* HTTP requests sent to the controllers

Sockets == 1..NumSockets
Meetings == 1..NumMeetings

\* ------------------------------------------------------------- identities
\* socket.userId as set by the auth middleware: connection 1 authenticates as
\* account u1, connection 2 as account u2, every other connection is a guest.
UserOf(s) == IF s = 1 THEN "u1" ELSE IF s = 2 THEN "u2" ELSE "guest"

\* Meeting.host of the meeting documents: u2 hosts the odd codes, u1 the even.
HostOf(m) == IF m % 2 = 1 THEN "u2" ELSE "u1"

\* ----------------------------------------------------------------- tokens
\* joinToken argument of join-room: absent/empty, one that jwt.verify rejects
\* (bad signature or expired), or a verified payload.  A verified payload with
\* meetingId 0 is one without a meetingId (the login token).
NoToken == [kind |-> "none", meetingId |-> 0, authorized |-> FALSE]
BadToken == [kind |-> "bad", meetingId |-> 0, authorized |-> FALSE]
AuthToken == [kind |-> "signed", meetingId |-> 0, authorized |-> FALSE]
JoinTokenFor(m) == [kind |-> "signed", meetingId |-> m, authorized |-> TRUE]
Tokens == {NoToken, BadToken, AuthToken} \cup {JoinTokenFor(m) : m \in Meetings}

\* ------------------------------------------------------------------ state
VARIABLES
    conn,      \* conn[s]: "new" | "open" (in io.sockets.sockets) | "closed"
    rooms,     \* the rooms Map: rooms[m].exists, rooms[m].map[s]
    adapter,   \* adapter[m]: connections joined to transport room room:<m>
    db,        \* the Meeting documents
    inflight,  \* inflight[s]: where s's join-room handler is suspended
    out,       \* events emitted by the last handler step, in order
    eng,       \* the Engagement documents: eng[m][u]
    last,      \* the event whose handler ran last (history)
    http,      \* http[r]: the HTTP request r and where its controller is
    disk,      \* the requests whose uploaded audio file is in uploads/
    transcripts \* the Transcript documents: transcripts[m], in creation order

vars == <<conn, rooms, adapter, db, inflight, out, eng, last,
          http, disk, transcripts>>

\* A ParticipantHandle slot of a room Map; present = FALSE is "no entry".
NoHandle == [present |-> FALSE, userId |-> "", isHost |-> FALSE]
EmptyMap == [s \in Sockets |-> NoHandle]
NoRoom == [exists |-> FALSE, map |-> EmptyMap]

RoomHas(rs, m, s) == rs[m].exists /\ rs[m].map[s].present
RoomMembers(rs, m) == {s \in Sockets : RoomHas(rs, m, s)}
RoomSize(rs, m) == Cardinality(RoomMembers(rs, m))

\* bcrypt.hash of the pre-save hook and bcrypt.compare of comparePassword;
\* the empty tuple is "no meetingPassword".
NoPassword == <<>>
Hash(password) == <<"bcrypt", password>>
Compare(candidate, hash) == hash = Hash(candidate)

\* Meeting documents of the store.
NoMeeting == [exists |-> FALSE, status |-> "", isLocked |-> FALSE,
              waitingRoomEnabled |-> FALSE, isPasswordProtected |-> FALSE,
              host |-> "", waitingQueue |-> {}, chatMessages |-> <<>>,
              participants |-> {}, expired |-> FALSE,
              meetingPassword |-> NoPassword, transcript |-> <<>>]
\* Meeting.create as createMeeting calls it: the odd codes with a password,
\* the even codes with the waiting room enabled.
CreatedDoc(m) ==
    [exists |-> TRUE, status |-> "active", isLocked |-> FALSE,
     waitingRoomEnabled |-> (m % 2 = 0), isPasswordProtected |-> (m % 2 = 1),
     host |-> HostOf(m), waitingQueue |-> {}, chatMessages |-> <<>>,
     participants |-> {}, expired |-> FALSE,
     meetingPassword |-> IF m % 2 = 1 THEN Hash("secret") ELSE NoPassword,
     transcript |-> <<>>]

\* Every state the document of meeting m can be in when join-room reads it:
\* removed, or created and then locked, unlocked or ended by the host; the
\* password and waiting-room options are those of its creation or others.
MeetingDocs(m) ==
    {NoMeeting} \cup
    [exists : {TRUE}, status : {"active", "ended"}, isLocked : BOOLEAN,
     waitingRoomEnabled : BOOLEAN,
     isPasswordProtected : {CreatedDoc(m).isPasswordProtected},
     host : {HostOf(m)}, waitingQueue : {{}}, chatMessages : {<<>>},
     participants : {{}}, expired : {FALSE},
     meetingPassword : {CreatedDoc(m).meetingPassword}, transcript : {<<>>}]

Idle == [pc |-> "idle", meetingId |-> 0, joinToken |-> NoToken]

\* Engagement documents, one per (meetingId, userId); exists = FALSE is "no
\* document yet".
Users == {UserOf(s) : s \in Sockets}
NoEngagement == [exists |-> FALSE, speakingTime |-> 0, cameraOnTime |-> 0]
NoEngagements == [m \in Meetings |-> [u \in Users |-> NoEngagement]]

\* The event dispatched last: its name and meetingId, whether its sender held
\* a handle flagged isHost in that room and whether the connection it is
\* about was in that room when the handler started, and its text argument.
NoEvent == [name |-> "", meetingId |-> 0, byHost |-> FALSE, wasIn |-> FALSE,
            text |-> <<>>]

\* HTTP requests; pc = "new" is a request that was not sent yet, "done" one
\* that was answered.  doc is the document the controller fetched, dirty
\* whether the controller has modified its status, status and joinToken are
\* the response.
Requests == 1..NumRequests
NoRequest ==
    [op |-> "", pc |-> "new", meetingId |-> 0, password |-> "", user |-> "",
     doc |-> NoMeeting, dirty |-> FALSE, status |-> 0,
     joinToken |-> NoToken]
NoRequests == [r \in Requests |-> NoRequest]
NoTranscripts == [m \in Meetings |-> <<>>]

\* No controller runs.
Offline == UNCHANGED <<http, disk, transcripts>>

NumInflight == Cardinality({s \in Sockets : inflight[s].pc # "idle"})

\* ----------------------------------------------------------------- events
Evt(name, to) ==
    [name |-> name, to |-> to, meetingId |-> 0, socketId |-> 0, count |-> -1,
     isHost |-> FALSE, participants |-> {}, message |-> "", payload |-> "",
     text |-> <<>>, scores |-> {}]

\* io.to(`room:${m}`), socket.to(`room:${m}`), io.to(socketId), socket.emit
ToRoom(ad, m) == ad[m]
ToRoomExcept(ad, m, s) == ad[m] \ {s}
ToSocketId(c, id) == IF c[id] = "open" THEN {id} ELSE {}
ToSelf(s) == {s}

\* getRoomParticipants
GetRoomParticipants(rs, m) ==
    IF ~rs[m].exists THEN {}
    ELSE {[socketId |-> s, userId |-> rs[m].map[s].userId,
           isHost |-> rs[m].map[s].isHost] : s \in RoomMembers(rs, m)}

\* ------------------------------------------------------------ admitToRoom
\* st = [rooms, adapter, out]; c = the connection states.
\* admitToRoom that announces a connection only when it is new to the room.
AdmitToRoomOnce(st, c, s, m, isHost) ==
    IF RoomHas(st.rooms, m, s)
    THEN [st EXCEPT !.out = @ \o
            <<[Evt("join-approved", ToSelf(s)) EXCEPT
                 !.meetingId = m, !.isHost = isHost,
                 !.participants = GetRoomParticipants(st.rooms, m)]>>]
    ELSE
    LET ad1 == IF c[s] = "open"
               THEN [st.adapter EXCEPT ![m] = @ \cup {s}]
               ELSE st.adapter
        map0 == IF st.rooms[m].exists THEN st.rooms[m].map ELSE EmptyMap
        rs1 == [st.rooms EXCEPT ![m] =
                  [exists |-> TRUE,
                   map |-> [map0 EXCEPT ![s] =
                              [present |-> TRUE, userId |-> UserOf(s),
                               isHost |-> isHost]]]]
        participants == GetRoomParticipants(rs1, m)
    IN [rooms |-> rs1,
        adapter |-> ad1,
        out |-> st.out \o
          << [Evt("room-participants", ToSelf(s)) EXCEPT
                !.participants = {p \in participants : p.socketId # s}],
             [Evt("user-joined", ToRoomExcept(ad1, m, s)) EXCEPT
                !.socketId = s, !.isHost = isHost],
             [Evt("participant-count", ToRoom(ad1, m)) EXCEPT
                !.meetingId = m, !.count = Cardinality(participants)],
             [Evt("join-approved", ToSelf(s)) EXCEPT
                !.meetingId = m, !.isHost = isHost,
                !.participants = participants] >>]

\* admitToRoom sending the newcomer the unfiltered participant list.
AdmitToRoomListsAll(st, c, s, m, isHost) ==
    LET ad1 == IF c[s] = "open"
               THEN [st.adapter EXCEPT ![m] = @ \cup {s}]
               ELSE st.adapter
        map0 == IF st.rooms[m].exists THEN st.rooms[m].map ELSE EmptyMap
        rs1 == [st.rooms EXCEPT ![m] =
                  [exists |-> TRUE,
                   map |-> [map0 EXCEPT ![s] =
                              [present |-> TRUE, userId |-> UserOf(s),
                               isHost |-> isHost]]]]
        participants == GetRoomParticipants(rs1, m)
    IN [rooms |-> rs1,
        adapter |-> ad1,
        out |-> st.out \o
          << [Evt("room-participants", ToSelf(s)) EXCEPT
                !.participants = participants],
             [Evt("user-joined", ToRoomExcept(ad1, m, s)) EXCEPT
                !.socketId = s, !.isHost = isHost],
             [Evt("participant-count", ToRoom(ad1, m)) EXCEPT
                !.meetingId = m, !.count = Cardinality(participants)],
             [Evt("join-approved", ToSelf(s)) EXCEPT
                !.meetingId = m, !.isHost = isHost,
                !.participants = participants] >>]

\* admitToRoom flagging as host whoever opens the room.
AdmitToRoomFirstIsHost(st, c, s, m, isHost) ==
    LET ad1 == IF c[s] = "open"
               THEN [st.adapter EXCEPT ![m] = @ \cup {s}]
               ELSE st.adapter
        map0 == IF st.rooms[m].exists THEN st.rooms[m].map ELSE EmptyMap
        flag == isHost \/ ~st.rooms[m].exists
        rs1 == [st.rooms EXCEPT ![m] =
                  [exists |-> TRUE,
                   map |-> [map0 EXCEPT ![s] =
                              [present |-> TRUE, userId |-> UserOf(s),
                               isHost |-> flag]]]]
        participants == GetRoomParticipants(rs1, m)
    IN [rooms |-> rs1,
        adapter |-> ad1,
        out |-> st.out \o
          << [Evt("room-participants", ToSelf(s)) EXCEPT
                !.participants = {p \in participants : p.socketId # s}],
             [Evt("user-joined", ToRoomExcept(ad1, m, s)) EXCEPT
                !.socketId = s, !.isHost = flag],
             [Evt("participant-count", ToRoom(ad1, m)) EXCEPT
                !.meetingId = m, !.count = Cardinality(participants)],
             [Evt("join-approved", ToSelf(s)) EXCEPT
                !.meetingId = m, !.isHost = flag,
                !.participants = participants] >>]

AdmitToRoom(st, c, s, m, isHost) ==
    LET ad1 == IF c[s] = "open"
               THEN [st.adapter EXCEPT ![m] = @ \cup {s}]
               ELSE st.adapter
        map0 == IF st.rooms[m].exists THEN st.rooms[m].map ELSE EmptyMap
        rs1 == [st.rooms EXCEPT ![m] =
                  [exists |-> TRUE,
                   map |-> [map0 EXCEPT ![s] =
                              [present |-> TRUE, userId |-> UserOf(s),
                               isHost |-> isHost]]]]
        participants == GetRoomParticipants(rs1, m)
    IN [rooms |-> rs1,
        adapter |-> ad1,
        out |-> st.out \o
          << [Evt("room-participants", ToSelf(s)) EXCEPT
                !.participants = {p \in participants : p.socketId # s}],
             [Evt("user-joined", ToRoomExcept(ad1, m, s)) EXCEPT
                !.socketId = s, !.isHost = isHost],
             [Evt("participant-count", ToRoom(ad1, m)) EXCEPT
                !.meetingId = m, !.count = Cardinality(participants)],
             [Evt("join-approved", ToSelf(s)) EXCEPT
                !.meetingId = m, !.isHost = isHost,
                !.participants = participants] >>]

\* ------------------------------------------------------------ handleLeave
\* handleLeave reading room.size before room.delete.
HandleLeaveStaleSize(st, s, m) ==
    IF ~st.rooms[m].exists THEN st
    ELSE
    LET map1 == [st.rooms[m].map EXCEPT ![s] = NoHandle]
        ad1 == [st.adapter EXCEPT ![m] = @ \ {s}]
        size == Cardinality({x \in Sockets : map1[x].present})
    IN [rooms |-> [st.rooms EXCEPT ![m] =
                     IF size = 0 THEN NoRoom
                     ELSE [exists |-> TRUE, map |-> map1]],
        adapter |-> ad1,
        out |-> st.out \o
          << [Evt("user-left", ToRoom(ad1, m)) EXCEPT
                !.meetingId = m, !.socketId = s],
             [Evt("participant-count", ToRoom(ad1, m)) EXCEPT
                !.meetingId = m, !.count = RoomSize(st.rooms, m)] >>]

\* handleLeave taking the leaver for a member: the size is the one before
\* the delete, less one.
HandleLeaveAssumesMember(st, s, m) ==
    IF ~st.rooms[m].exists THEN st
    ELSE
    LET map1 == [st.rooms[m].map EXCEPT ![s] = NoHandle]
        ad1 == [st.adapter EXCEPT ![m] = @ \ {s}]
        size == RoomSize(st.rooms, m) - 1
    IN [rooms |-> [st.rooms EXCEPT ![m] =
                     IF size = 0 THEN NoRoom
                     ELSE [exists |-> TRUE, map |-> map1]],
        adapter |-> ad1,
        out |-> st.out \o
          << [Evt("user-left", ToRoom(ad1, m)) EXCEPT
                !.meetingId = m, !.socketId = s],
             [Evt("participant-count", ToRoom(ad1, m)) EXCEPT
                !.meetingId = m, !.count = size] >>]

HandleLeave(st, s, m) ==
    IF ~st.rooms[m].exists THEN st
    ELSE
    LET map1 == [st.rooms[m].map EXCEPT ![s] = NoHandle]
        ad1 == [st.adapter EXCEPT ![m] = @ \ {s}]
        size == Cardinality({x \in Sockets : map1[x].present})
    IN [rooms |-> [st.rooms EXCEPT ![m] =
                     IF size = 0 THEN NoRoom
                     ELSE [exists |-> TRUE, map |-> map1]],
        adapter |-> ad1,
        out |-> st.out \o
          << [Evt("user-left", ToRoom(ad1, m)) EXCEPT
                !.meetingId = m, !.socketId = s],
             [Evt("participant-count", ToRoom(ad1, m)) EXCEPT
                !.meetingId = m, !.count = size] >>]

Here == [rooms |-> rooms, adapter |-> adapter, out |-> <<>>]

Apply(st) ==
    /\ rooms' = st.rooms
    /\ adapter' = st.adapter
    /\ out' = st.out

\* ---------------------------------------------------------------- actions
Init ==
    /\ conn = [s \in Sockets |-> "new"]
    /\ rooms = [m \in Meetings |-> NoRoom]
    /\ adapter = [m \in Meetings |-> {}]
    /\ db = [m \in Meetings |-> CreatedDoc(m)]
    /\ inflight = [s \in Sockets |-> Idle]
    /\ out = <<>>
    /\ eng = NoEngagements
    /\ last = NoEvent
    /\ http = NoRequests
    /\ disk = {}
    /\ transcripts = NoTranscripts

\* io.on('connection'); the transport hands out the connection ids in order.
Connect(s) ==
    /\ out = <<>>
    /\ conn[s] = "new"
    /\ \A x \in Sockets : x < s => conn[x] # "new"
    /\ conn' = [conn EXCEPT ![s] = "open"]
    /\ out' = <<>>
    /\ UNCHANGED <<rooms, adapter, db, inflight>>

\* ---- join-room ---------------------------------------------------------
\* The joinToken check of join-room: "pass" when the token is absent or
\* verifies for this meeting, otherwise the rejection that is sent.
\* The check without the comparison of decoded.meetingId.
TokenCheckAnyMeeting(tok, m) ==
    IF tok.kind = "none" THEN "pass"
    ELSE IF tok.kind = "bad" THEN "token-expired"
    ELSE IF ~tok.authorized THEN "invalid-token"
    ELSE "pass"

TokenCheck(tok, m) ==
    IF tok.kind = "none" THEN "pass"
    ELSE IF tok.kind = "bad" THEN "token-expired"
    ELSE IF tok.meetingId # m \/ ~tok.authorized THEN "invalid-token"
    ELSE "pass"

\* The decision join-room takes on the meeting document it fetched.
\* The decision without the isLocked branch.
GateDecisionNoLock(meeting, userId) ==
    IF ~meeting.exists THEN "not-found"
    ELSE IF meeting.status = "ended" THEN "ended"
    ELSE IF meeting.waitingRoomEnabled /\ meeting.host # userId THEN "wait"
    ELSE "admit"

\* The decision with the waiting room admitting at once.
GateDecisionAutoAdmit(meeting, userId) ==
    IF ~meeting.exists THEN "not-found"
    ELSE IF meeting.status = "ended" THEN "ended"
    ELSE IF meeting.isLocked /\ meeting.host # userId THEN "locked"
    ELSE "admit"

GateDecision(meeting, userId) ==
    IF ~meeting.exists THEN "not-found"
    ELSE IF meeting.status = "ended" THEN "ended"
    ELSE IF meeting.isLocked /\ meeting.host # userId THEN "locked"
    ELSE IF meeting.waitingRoomEnabled /\ meeting.host # userId THEN "wait"
    ELSE "admit"

Rejected(s, reason) ==
    [Evt("join-rejected", ToSelf(s)) EXCEPT !.message = reason]

\* The catch block of join-room.
\* A catch block that swallows the error, as the chat handler's does.
CatchJoinErrorSilent(s) == <<>>

CatchJoinError(s) == <<Rejected(s, "failed")>>

\* join-room up to `await Meeting.findOne`
JoinRoomStart(s, m, tok) ==
    /\ out = <<>>
    /\ conn[s] = "open"
    /\ inflight[s].pc = "idle"
    /\ NumInflight < MaxInflight
    /\ IF TokenCheck(tok, m) # "pass"
       THEN /\ out' = <<Rejected(s, TokenCheck(tok, m))>>
            /\ UNCHANGED inflight
       ELSE /\ out' = <<>>
            /\ inflight' = [inflight EXCEPT ![s] =
                 [pc |-> "findOne", meetingId |-> m, joinToken |-> tok]]
    /\ UNCHANGED <<conn, rooms, adapter, db>>

\* join-room from the result of Meeting.findOne up to the admission or up to
\* `await Meeting.findOneAndUpdate`; ok = FALSE is the store throwing.
JoinRoomFound(s, ok) ==
    LET m == inflight[s].meetingId
        tok == inflight[s].joinToken
        d == GateDecision(db[m], UserOf(s))
    IN
    /\ out = <<>>
    /\ inflight[s].pc = "findOne"
    /\ IF ~ok
       THEN /\ out' = CatchJoinError(s)
            /\ inflight' = [inflight EXCEPT ![s] = Idle]
            /\ UNCHANGED <<rooms, adapter>>
       ELSE IF d \in {"not-found", "ended", "locked"}
       THEN /\ out' = <<Rejected(s, d)>>
            /\ inflight' = [inflight EXCEPT ![s] = Idle]
            /\ UNCHANGED <<rooms, adapter>>
       ELSE IF d = "wait"
       THEN /\ out' = <<>>
            /\ inflight' = [inflight EXCEPT ![s].pc = "update"]
            /\ UNCHANGED <<rooms, adapter>>
       ELSE /\ Apply(AdmitToRoom(Here, conn, s, m,
                                 db[m].host = UserOf(s)))
            /\ inflight' = [inflight EXCEPT ![s] = Idle]
    /\ UNCHANGED <<conn, db>>

\* The connections holding a handle flagged isHost in room m; the code takes
\* the first of them in the Map's order.
HostSockets(rs, m) == {h \in RoomMembers(rs, m) : rs[m].map[h].isHost}

\* join-room from the result of Meeting.findOneAndUpdate($addToSet
\* waitingQueue) to its end; ok = FALSE is the store throwing.  The queue is
\* kept as the set of userId values of its entries.
JoinRoomQueued(s, ok) ==
    LET m == inflight[s].meetingId
        tok == inflight[s].joinToken
    IN
    /\ out = <<>>
    /\ inflight[s].pc = "update"
    /\ inflight' = [inflight EXCEPT ![s] = Idle]
    /\ IF ~ok
       THEN /\ out' = CatchJoinError(s)
            /\ UNCHANGED db
       ELSE /\ db' = IF db[m].exists
                     THEN [db EXCEPT ![m].waitingQueue = @ \cup {UserOf(s)}]
                     ELSE db
            /\ \/ /\ HostSockets(rooms, m) = {}
                  /\ out' = <<[Evt("join-waiting-room", ToSelf(s)) EXCEPT
                                 !.meetingId = m]>>
               \/ \E h \in HostSockets(rooms, m) :
                    out' = <<[Evt("waiting-room-request", ToSocketId(conn, h))
                                EXCEPT !.socketId = s],
                             [Evt("join-waiting-room", ToSelf(s)) EXCEPT
                                !.meetingId = m]>>
    /\ UNCHANGED <<conn, rooms, adapter>>

\* ---- approve-waiting / reject-waiting -----------------------------------
ApproveWaiting(s, t, m) ==
    /\ out = <<>>
    /\ conn[s] = "open"
    /\ IF conn[t] = "open"
       THEN LET st == AdmitToRoom(Here, conn, t, m, FALSE)
            IN Apply([st EXCEPT !.out = @ \o
                 <<[Evt("join-approved", ToSocketId(conn, t)) EXCEPT
                      !.meetingId = m]>>])
       ELSE /\ out' = <<>>
            /\ UNCHANGED <<rooms, adapter>>
    /\ UNCHANGED <<conn, db, inflight>>

RejectWaiting(s, t) ==
    /\ out = <<>>
    /\ conn[s] = "open"
    /\ out' = IF conn[t] = "open" THEN <<Rejected(t, "denied")>> ELSE <<>>
    /\ UNCHANGED <<conn, rooms, adapter, db, inflight>>

\* ---- remove-participant -------------------------------------------------
\* remove-participant asking only that the sender has a handle in the room.
RemoveFromRoomAnyMember(st, c, s, m, t) ==
    IF ~st.rooms[m].exists THEN st
    ELSE IF ~st.rooms[m].map[s].present THEN st
    ELSE
    LET notice == Evt("removed-from-meeting", ToSocketId(c, t))
    IN IF c[t] # "open" THEN [st EXCEPT !.out = @ \o <<notice>>]
       ELSE
       LET ad1 == [st.adapter EXCEPT ![m] = @ \ {t}]
           map1 == [st.rooms[m].map EXCEPT ![t] = NoHandle]
           size == Cardinality({x \in Sockets : map1[x].present})
       IN [rooms |-> [st.rooms EXCEPT ![m].map = map1],
           adapter |-> ad1,
           out |-> st.out \o
             << notice,
                [Evt("user-left", ToRoom(ad1, m)) EXCEPT
                   !.meetingId = m, !.socketId = t],
                [Evt("participant-count", ToRoom(ad1, m)) EXCEPT
                   !.meetingId = m, !.count = size] >>]

RemoveFromRoom(st, c, s, m, t) ==
    IF ~st.rooms[m].exists THEN st
    ELSE IF ~(st.rooms[m].map[s].present /\ st.rooms[m].map[s].isHost) THEN st
    ELSE
    LET notice == Evt("removed-from-meeting", ToSocketId(c, t))
    IN IF c[t] # "open" THEN [st EXCEPT !.out = @ \o <<notice>>]
       ELSE
       LET ad1 == [st.adapter EXCEPT ![m] = @ \ {t}]
           map1 == [st.rooms[m].map EXCEPT ![t] = NoHandle]
           size == Cardinality({x \in Sockets : map1[x].present})
       IN [rooms |-> [st.rooms EXCEPT ![m].map = map1],
           adapter |-> ad1,
           out |-> st.out \o
             << notice,
                [Evt("user-left", ToRoom(ad1, m)) EXCEPT
                   !.meetingId = m, !.socketId = t],
                [Evt("participant-count", ToRoom(ad1, m)) EXCEPT
                   !.meetingId = m, !.count = size] >>]

RemoveParticipant(s, m, t) ==
    /\ out = <<>>
    /\ conn[s] = "open"
    /\ Apply(RemoveFromRoom(Here, conn, s, m, t))
    /\ UNCHANGED <<conn, db, inflight>>

\* ---- end-meeting / leave-room / disconnect ------------------------------
EndMeeting(s, m) ==
    /\ out = <<>>
    /\ conn[s] = "open"
    /\ out' = <<[Evt("meeting-ended", ToRoom(adapter, m)) EXCEPT
                   !.meetingId = m]>>
    /\ rooms' = [rooms EXCEPT ![m] = NoRoom]
    /\ UNCHANGED <<conn, adapter, db, inflight>>

LeaveRoom(s, m) ==
    /\ out = <<>>
    /\ conn[s] = "open"
    /\ Apply(HandleLeave(Here, s, m))
    /\ UNCHANGED <<conn, db, inflight>>

\* The orders in which the disconnect loop can meet the rooms of the Map.
RoomOrders == {f \in [1..NumMeetings -> Meetings] :
                 \A i, j \in 1..NumMeetings : f[i] = f[j] => i = j}

\* The disconnect loop leaving the first room it finds the connection in.
LeaveAllFirstOnly(st, s, order, i) ==
    LET found == {k \in i..Len(order) : RoomHas(st.rooms, order[k], s)}
    IN IF found = {} THEN st
       ELSE HandleLeave(st, s,
              order[CHOOSE k \in found : \A j \in found : k <= j])

RECURSIVE LeaveAll(_, _, _, _)
LeaveAll(st, s, order, i) ==
    IF i > Len(order) THEN st
    ELSE LeaveAll(IF RoomHas(st.rooms, order[i], s)
                  THEN HandleLeave(st, s, order[i]) ELSE st,
                  s, order, i + 1)

\* The transport takes the connection out of its rooms and of
\* io.sockets.sockets, then the 'disconnect' handler runs.
Disconnect(s) ==
    /\ out = <<>>
    /\ conn[s] = "open"
    /\ conn' = [conn EXCEPT ![s] = "closed"]
    /\ \E order \in RoomOrders :
         Apply(LeaveAll([Here EXCEPT
                           !.adapter = [m \in Meetings |-> adapter[m] \ {s}]],
                        s, order, 1))
    /\ UNCHANGED <<db, inflight>>

\* The transport writes the emitted events out before the event loop
\* dispatches the next event.
Flush ==
    /\ out # <<>>
    /\ out' = <<>>
    /\ UNCHANGED <<conn, rooms, adapter, db, inflight>>

\* The handlers above touch neither the Engagement documents nor the history.
Aside == UNCHANGED <<eng, last>> /\ Offline

Next ==
    \/ Flush /\ Aside
    \/ Aside /\ \E s \in Sockets : Connect(s)
    \/ Aside /\ \E s \in Sockets, m \in Meetings, tok \in Tokens :
                  JoinRoomStart(s, m, tok)
    \/ Aside /\ \E s \in Sockets, ok \in BOOLEAN : JoinRoomFound(s, ok)
    \/ Aside /\ \E s \in Sockets, ok \in BOOLEAN : JoinRoomQueued(s, ok)
    \/ Aside /\ \E s, t \in Sockets, m \in Meetings : ApproveWaiting(s, t, m)
    \/ Aside /\ \E s, t \in Sockets : RejectWaiting(s, t)
    \/ Aside /\ \E s, t \in Sockets, m \in Meetings :
                  RemoveParticipant(s, m, t)
    \/ Aside /\ \E s \in Sockets, m \in Meetings : EndMeeting(s, m)
    \/ Aside /\ \E s \in Sockets, m \in Meetings : LeaveRoom(s, m)
    \/ Aside /\ \E s \in Sockets : Disconnect(s)

Spec == Init /\ [][Next]_vars

\* ---- serial dispatch ---------------------------------------------------
\* No join-room handler is suspended on the store: the store has answered
\* before the event loop dispatches the next event.
Quiet == NumInflight = 0

\* The room registry under admissions, leave-room, disconnect and
\* remove-participant, dispatched serially.
RegistryNext ==
    \/ Flush /\ Aside
    \/ Quiet /\ Aside /\ \E s \in Sockets : Connect(s)
    \/ Quiet /\ Aside /\ \E s \in Sockets, m \in Meetings, tok \in Tokens :
                  JoinRoomStart(s, m, tok)
    \/ Aside /\ \E s \in Sockets, ok \in BOOLEAN : JoinRoomFound(s, ok)
    \/ Aside /\ \E s \in Sockets, ok \in BOOLEAN : JoinRoomQueued(s, ok)
    \/ Quiet /\ Aside /\ \E s, t \in Sockets, m \in Meetings : ApproveWaiting(s, t, m)
    \/ Quiet /\ Aside /\ \E s, t \in Sockets, m \in Meetings :
                  RemoveParticipant(s, m, t)
    \/ Quiet /\ Aside /\ \E s \in Sockets, m \in Meetings : LeaveRoom(s, m)
    \/ Quiet /\ Aside /\ \E s \in Sockets : Disconnect(s)

RegistrySpec == Init /\ [][RegistryNext]_vars

\* The join gatekeeper over every meeting document: the rooms are empty and
\* the document of one meeting has been changed since its creation; the
\* connections, join-room requests and disconnects are dispatched serially.
GateInit ==
    /\ conn = [s \in Sockets |-> "new"]
    /\ rooms = [m \in Meetings |-> NoRoom]
    /\ adapter = [m \in Meetings |-> {}]
    /\ \E m \in Meetings : \E doc \in MeetingDocs(m) :
          db = [[x \in Meetings |-> CreatedDoc(x)] EXCEPT ![m] = doc]
    /\ inflight = [s \in Sockets |-> Idle]
    /\ out = <<>>
    /\ eng = NoEngagements
    /\ last = NoEvent
    /\ http = NoRequests
    /\ disk = {}
    /\ transcripts = NoTranscripts

GateNext ==
    \/ Flush /\ Aside
    \/ Quiet /\ Aside /\ \E s \in Sockets : Connect(s)
    \/ Quiet /\ Aside /\ \E s \in Sockets, m \in Meetings, tok \in Tokens :
                  JoinRoomStart(s, m, tok)
    \/ Aside /\ \E s \in Sockets, ok \in BOOLEAN : JoinRoomFound(s, ok)
    \/ Aside /\ \E s \in Sockets, ok \in BOOLEAN : JoinRoomQueued(s, ok)
    \/ Quiet /\ Aside /\ \E s \in Sockets : Disconnect(s)

GateSpec == GateInit /\ [][GateNext]_vars

\* ======================================================================
\* Properties
\* ======================================================================
Events(o, name) == {i \in 1..Len(o) : o[i].name = name}

\* C1: every participant-count event that is broadcast carries the number of
\* entries of that room's participant map at the moment of the broadcast,
\* whatever admissions, leave-room, disconnect and remove-participant events
\* came before.
CountIsMapSize ==
    \A i \in Events(out, "participant-count") :
        out[i].count = RoomSize(rooms, out[i].meetingId)

\* A participant has left a room of two: user-left, then the count 1.
CountAfterLeaveReached ==
    \E i \in Events(out, "user-left") :
        /\ i < Len(out)
        /\ out[i + 1].name = "participant-count"
        /\ out[i + 1].meetingId = out[i].meetingId
        /\ out[i + 1].count = 1
        /\ RoomSize(rooms, out[i].meetingId) = 1

\* C2: after any handler the registry holds no room entry whose participant
\* map is empty.
NoEmptyRoom ==
    \A m \in Meetings : rooms[m].exists => RoomMembers(rooms, m) # {}

\* C3: a connection-id is in at most one room's participant map.
InAtMostOneRoom ==
    \A s \in Sockets :
        Cardinality({m \in Meetings : RoomHas(rooms, m, s)}) <= 1
\* ---- join-room ---------------------------------------------------------
Outcomes == {"join-approved", "join-waiting-room", "join-rejected"}

\* The outcome events in o that are sent to connection s.
OutcomesTo(o, s) ==
    {i \in 1..Len(o) : o[i].name \in Outcomes /\ s \in o[i].to}

\* A step of connection s's join-room handler: it moves the handler to or
\* from a suspension point, or it ends the handler at the token check.
JoinRoomStep(s) ==
    \/ /\ inflight'[s] # inflight[s]
       /\ \/ \E m \in Meetings, tok \in Tokens : JoinRoomStart(s, m, tok)
          \/ \E ok \in BOOLEAN : JoinRoomFound(s, ok)
          \/ \E ok \in BOOLEAN : JoinRoomQueued(s, ok)
    \/ /\ inflight' = inflight /\ out' # <<>>
       /\ \E m \in Meetings, tok \in Tokens :
            TokenCheck(tok, m) # "pass" /\ JoinRoomStart(s, m, tok)

\* o is a single join-rejected sent to s.
OnlyRejected(o, s) ==
    /\ Len(o) = 1
    /\ o[1].name = "join-rejected"
    /\ o[1].to = {s}

AdmittedOnlyWithToken ==
    [][\A s \in Sockets :
         LET m == inflight[s].meetingId IN
         /\ \E ok \in BOOLEAN : JoinRoomFound(s, ok)
         /\ Events(out', "join-approved") # {}
         /\ db[m].isPasswordProtected
         => inflight[s].joinToken = JoinTokenFor(m)]_vars

\* C6: a join-room request whose token is present but does not verify, is
\* expired or names another meeting, and a join-room request for a meeting
\* that is not found or is ended, yields join-rejected and leaves the room
\* registry unchanged.
BadRequestRejected ==
    [][/\ \A s \in Sockets, m \in Meetings, tok \in Tokens :
            tok.kind # "none" /\ tok # JoinTokenFor(m)
              /\ JoinRoomStart(s, m, tok)
            => OnlyRejected(out', s) /\ rooms' = rooms
       /\ \A s \in Sockets, ok \in BOOLEAN :
            LET doc == db[inflight[s].meetingId] IN
            inflight[s].pc = "findOne"
              /\ (~doc.exists \/ doc.status = "ended")
              /\ JoinRoomFound(s, ok)
            => OnlyRejected(out', s) /\ rooms' = rooms]_vars

\* A token naming another meeting has been rejected while a room is occupied.
WrongMeetingTokenRejected ==
    \E s \in Sockets :
        /\ out = <<Rejected(s, "invalid-token")>>
        /\ \E m \in Meetings : RoomMembers(rooms, m) # {}

\* C7 as stated: when the meeting document read by join-room has
\* isLocked = true, the host is the only requester that can be admitted and
\* every other requester gets join-rejected with the locked-meeting message
\* and is not added to the room.
LockedRejectsWithLockedMessage ==
    [][\A s \in Sockets :
         LET m == inflight[s].meetingId IN
         JoinRoomFound(s, TRUE) /\ db[m].exists /\ db[m].isLocked
         => IF UserOf(s) = db[m].host
            THEN TRUE
            ELSE out' = <<Rejected(s, "locked")>> /\ rooms' = rooms]_vars

\* C7 amended: when the meeting document read by join-room is not ended and
\* has isLocked = true, the host is admitted and every other requester gets
\* join-rejected with the locked-meeting message and is not added to the
\* room; when it is ended, every requester gets join-rejected (with the
\* ended-meeting message) and is not added.
LockedAdmitsHostOnly ==
    [][\A s \in Sockets :
         LET m == inflight[s].meetingId IN
         JoinRoomFound(s, TRUE) /\ db[m].exists /\ db[m].isLocked
         => IF db[m].status = "ended"
            THEN out' = <<Rejected(s, "ended")>> /\ rooms' = rooms
            ELSE IF UserOf(s) = db[m].host
            THEN /\ RoomHas(rooms', m, s)
                 /\ Cardinality(OutcomesTo(out', s)) = 1
                 /\ Events(out', "join-approved") # {}
            ELSE out' = <<Rejected(s, "locked")>> /\ rooms' = rooms]_vars

\* A non-host has been turned away from a locked meeting in which the host
\* sits.
LockedOutReached ==
    \E s \in Sockets, m \in Meetings :
        /\ out = <<Rejected(s, "locked")>>
        /\ db[m].isLocked /\ db[m].status # "ended"
        /\ UserOf(s) # db[m].host
        /\ ~RoomHas(rooms, m, s)
        /\ \E h \in Sockets : RoomHas(rooms, m, h) /\ UserOf(h) = db[m].host
\* ---- waiting room ------------------------------------------------------
\* o carries a waiting-room-request about s for the connection of a handle
\* flagged isHost in room m, then join-waiting-room for s.
HostAsked(o, c, rs, s, m) ==
    \E h \in HostSockets(rs, m) :
        o = <<[Evt("waiting-room-request", ToSocketId(c, h)) EXCEPT
                 !.socketId = s],
              [Evt("join-waiting-room", ToSelf(s)) EXCEPT !.meetingId = m]>>

ToldToWait(o, s, m) ==
    o = <<[Evt("join-waiting-room", ToSelf(s)) EXCEPT !.meetingId = m]>>

\* C8 as stated: when the meeting document read by join-room has the waiting
\* room enabled and the requester is not the host, the requester is not added
\* to the room, is recorded in the persisted waiting queue, the host's
\* connection gets waiting-room-request when a host handle is in the room,
\* and the requester gets join-waiting-room.
WaitingRoomQueues ==
    [][\A s \in Sockets :
         LET m == inflight[s].meetingId IN
         /\ JoinRoomFound(s, TRUE) /\ db[m].exists
               /\ db[m].waitingRoomEnabled /\ UserOf(s) # db[m].host
            => rooms' = rooms /\ inflight'[s].pc = "update"
         /\ \A ok \in BOOLEAN :
              JoinRoomQueued(s, ok)
              => /\ rooms' = rooms
                 /\ UserOf(s) \in db'[m].waitingQueue
                 /\ IF HostSockets(rooms, m) # {}
                    THEN HostAsked(out', conn, rooms, s, m)
                    ELSE ToldToWait(out', s, m)]_vars

\* C8 amended: when the meeting document read by join-room is not ended and
\* not locked, has the waiting room enabled and the requester is not the
\* host, join-room does not add the requester to the room and issues the
\* waiting-queue update; when that update succeeds the requester is recorded
\* in the persisted waiting queue, the connection of a host handle in the
\* room (when there is one) is sent waiting-room-request and the requester is
\* sent join-waiting-room; when the update throws the queue is unchanged and
\* the requester is sent join-rejected.
WaitingRoomQueuesUnlessStoreFails ==
    [][\A s \in Sockets :
         LET m == inflight[s].meetingId IN
         /\ JoinRoomFound(s, TRUE) /\ db[m].exists
               /\ db[m].status # "ended" /\ ~db[m].isLocked
               /\ db[m].waitingRoomEnabled /\ UserOf(s) # db[m].host
            => rooms' = rooms /\ out' = <<>> /\ inflight'[s].pc = "update"
         /\ JoinRoomQueued(s, TRUE)
            => /\ rooms' = rooms
               /\ UserOf(s) \in db'[m].waitingQueue
               /\ IF HostSockets(rooms, m) # {}
                  THEN HostAsked(out', conn, rooms, s, m)
                  ELSE ToldToWait(out', s, m)
         /\ JoinRoomQueued(s, FALSE)
            => rooms' = rooms /\ db' = db /\ OnlyRejected(out', s)]_vars

\* A non-host has been queued and the host in the room has been asked.
HostAskedReached ==
    \E s \in Sockets, m \in Meetings :
        /\ HostAsked(out, conn, rooms, s, m)
        /\ UserOf(s) \in db[m].waitingQueue
        /\ UserOf(s) # db[m].host
        /\ ~RoomHas(rooms, m, s)
        /\ \E h \in HostSockets(rooms, m) : conn[h] = "open"

IsHostConn(s, m) == RoomHas(rooms, m, s) /\ rooms[m].map[s].isHost
Pending(t, m) == db[m].exists /\ UserOf(t) \in db[m].waitingQueue

\* C9: in a meeting with the waiting room enabled a non-host connection
\* enters the room only by an approve-waiting event of that meeting's host
\* connection naming a connection pending for that meeting, and an
\* approve-waiting event from any other connection, or naming a connection
\* that is not pending for that meeting, admits no one.
OnlyHostApprovesPending ==
    [][/\ \A t \in Sockets, m \in Meetings :
            /\ db[m].exists /\ db[m].waitingRoomEnabled
            /\ UserOf(t) # db[m].host
            /\ ~RoomHas(rooms, m, t) /\ RoomHas(rooms', m, t)
            => \E s \in Sockets :
                 ApproveWaiting(s, t, m) /\ IsHostConn(s, m) /\ Pending(t, m)
       /\ \A s, t \in Sockets, m \in Meetings :
            ApproveWaiting(s, t, m) /\ ~(IsHostConn(s, m) /\ Pending(t, m))
            => \A x \in Meetings :
                 RoomMembers(rooms', x) = RoomMembers(rooms, x)]_vars

\* C10: after the host's approve-waiting for a pending connection that is
\* still connected, that connection is in the room with isHost = false and
\* has been sent join-approved exactly once.
ApprovedOnce ==
    [][\A s, t \in Sockets, m \in Meetings :
         ApproveWaiting(s, t, m) /\ IsHostConn(s, m) /\ Pending(t, m)
           /\ conn[t] = "open"
         => /\ RoomHas(rooms', m, t)
            /\ ~rooms'[m].map[t].isHost
            /\ Cardinality({i \in Events(out', "join-approved") :
                              t \in out'[i].to}) = 1]_vars

\* ======================================================================
\* Host controls and the registry, with the dispatched event on record
\* ======================================================================
Noted(name, m, byHost, wasIn) ==
    [NoEvent EXCEPT !.name = name, !.meetingId = m, !.byHost = byHost,
                    !.wasIn = wasIn]

\* The event loop is between two events: everything emitted is written out.
Ready == out = <<>> /\ last = NoEvent

\* The handler returns and the transport writes the emitted events out
\* before the event loop dispatches the next event.
Return ==
    /\ ~Ready
    /\ out' = <<>>
    /\ last' = NoEvent
    /\ UNCHANGED <<conn, rooms, adapter, db, inflight, eng>>
    /\ Offline

\* join-room admits s to m in the step that follows Meeting.findOne.
Admits(s, m) ==
    /\ inflight[s].pc = "findOne"
    /\ inflight[s].meetingId = m
    /\ GateDecision(db[m], UserOf(s)) = "admit"

\* Every meeting has been created with the waiting room off, so join-room
\* never reaches Meeting.findOneAndUpdate.
ControlInit ==
    /\ conn = [s \in Sockets |-> "new"]
    /\ rooms = [m \in Meetings |-> NoRoom]
    /\ adapter = [m \in Meetings |-> {}]
    /\ db = [m \in Meetings |->
               [CreatedDoc(m) EXCEPT !.waitingRoomEnabled = FALSE]]
    /\ inflight = [s \in Sockets |-> Idle]
    /\ out = <<>>
    /\ eng = NoEngagements
    /\ last = NoEvent
    /\ http = NoRequests
    /\ disk = {}
    /\ transcripts = NoTranscripts

ControlNext ==
    \/ Return
    \/ /\ Ready /\ Quiet /\ Aside
       /\ \/ \E s \in Sockets : Connect(s)
          \/ \E s \in Sockets, m \in Meetings, tok \in Tokens :
               JoinRoomStart(s, m, tok)
    \/ \E s \in Sockets, ok \in BOOLEAN :
         /\ last = NoEvent /\ UNCHANGED eng /\ Offline
         /\ JoinRoomFound(s, ok)
         /\ last' = LET m == inflight[s].meetingId IN
                    IF ok /\ Admits(s, m)
                    THEN Noted("join-room", m, IsHostConn(s, m),
                               RoomHas(rooms, m, s))
                    ELSE NoEvent
    \/ \E s, t \in Sockets, m \in Meetings :
         /\ Ready /\ Quiet /\ UNCHANGED eng /\ Offline
         /\ ApproveWaiting(s, t, m)
         /\ last' = Noted("approve-waiting", m, IsHostConn(s, m),
                          RoomHas(rooms, m, t))
    \/ \E s, t \in Sockets, m \in Meetings :
         /\ Ready /\ Quiet /\ UNCHANGED eng /\ Offline
         /\ RemoveParticipant(s, m, t)
         /\ last' = Noted("remove-participant", m, IsHostConn(s, m),
                          RoomHas(rooms, m, t))
    \/ \E s \in Sockets, m \in Meetings :
         /\ Ready /\ Quiet /\ UNCHANGED eng /\ Offline
         /\ LeaveRoom(s, m)
         /\ last' = Noted("leave-room", m, IsHostConn(s, m),
                          RoomHas(rooms, m, s))
    \/ \E s \in Sockets :
         /\ Ready /\ Quiet /\ UNCHANGED eng /\ Offline
         /\ Disconnect(s)
         /\ last' = Noted("disconnect", 0, FALSE,
                          \E m \in Meetings : RoomHas(rooms, m, s))

ControlSpec == ControlInit /\ [][ControlNext]_vars

\* ---- remove-participant ------------------------------------------------
\* C11: a remove-participant event sent by a connection whose handle in that
\* room is absent or has isHost = false changes no room's membership and
\* sends no removed-from-meeting, user-left or participant-count event.
NonHostRemoveIgnored ==
    [][\A s, t \in Sockets, m \in Meetings :
         ~IsHostConn(s, m) /\ RemoveParticipant(s, m, t)
         => /\ rooms' = rooms
            /\ \A i \in 1..Len(out') :
                 out'[i].name \notin {"removed-from-meeting", "user-left",
                                      "participant-count"}]_vars

\* A connection that is not the host has asked to remove a member of a room
\* of two, and both are still there.
NonHostRemoveReached ==
    /\ last.name = "remove-participant"
    /\ ~last.byHost /\ last.wasIn
    /\ out = <<>>
    /\ RoomSize(rooms, last.meetingId) = 2
    /\ \E h \in Sockets : IsHostConn(h, last.meetingId)

\* ---- admission ---------------------------------------------------------
\* A step that admits connection c to room m: join-room after its checks, or
\* an approve-waiting naming c; the event on record tells which steps are
\* to be looked at.
AdmitStep(c, m) ==
    /\ last'.meetingId = m
    /\ \/ /\ last'.name = "join-room"
          /\ Admits(c, m) /\ JoinRoomFound(c, TRUE)
       \/ /\ last'.name = "approve-waiting"
          /\ conn[c] = "open" /\ \E a \in Sockets : ApproveWaiting(a, c, m)

Open == {s \in Sockets : conn[s] = "open"}

\* C13: admitting a connection that is already in the room leaves the room's
\* set of connection-ids and its size as they were, and the room-participants,
\* user-joined and participant-count events are emitted all the same.
ReadmitKeepsMembers ==
    [][\A c \in Sockets, m \in Meetings :
         RoomHas(rooms, m, c) /\ AdmitStep(c, m)
         => /\ RoomMembers(rooms', m) = RoomMembers(rooms, m)
            /\ RoomSize(rooms', m) = RoomSize(rooms, m)
            /\ Events(out', "room-participants") # {}
            /\ Events(out', "user-joined") # {}
            /\ Events(out', "participant-count") # {}]_vars

\* A member of a room of two has been admitted to it again and the other
\* member is told that it joined.
ReadmitReached ==
    /\ last.name \in {"join-room", "approve-waiting"}
    /\ last.wasIn
    /\ RoomSize(rooms, last.meetingId) = 2
    /\ \E i \in Events(out, "user-joined") :
         /\ out[i].to # {}
         /\ RoomHas(rooms, last.meetingId, out[i].socketId)

\* C14: on admission of connection c to room m, c is sent room-participants
\* listing exactly the other connections then in m's participant map, every
\* other connection in m is sent user-joined for c, and every connection in
\* m, c included, is sent participant-count; when B joins a room that holds
\* only the host A, B's list is exactly A and the count is 2.
AdmissionAnnounced ==
    [][\A c \in Sockets, m \in Meetings :
         AdmitStep(c, m)
         => LET others == RoomMembers(rooms', m) \ {c} IN
            /\ \E i \in Events(out', "room-participants") :
                 /\ out'[i].to = {c}
                 /\ out'[i].participants =
                      {p \in GetRoomParticipants(rooms', m) : p.socketId # c}
                 /\ {p.socketId : p \in out'[i].participants} = others
            /\ \E i \in Events(out', "user-joined") :
                 /\ out'[i].socketId = c
                 /\ others \cap Open \subseteq out'[i].to
            /\ \E i \in Events(out', "participant-count") :
                 /\ out'[i].meetingId = m
                 /\ (others \cup {c}) \cap Open \subseteq out'[i].to
                 /\ \A a \in Sockets :
                      a # c /\ RoomMembers(rooms, m) = {a}
                      => out'[i].count = 2]_vars

\* B has joined the room that held the host A alone: B's list is A, flagged
\* as host, and the count sent to both is 2.
SecondJoinerReached ==
    \E a, b \in Sockets, m \in Meetings :
        /\ a # b
        /\ RoomMembers(rooms, m) = {a, b}
        /\ \E i \in Events(out, "room-participants") :
             /\ out[i].to = {b}
             /\ out[i].participants =
                  {[socketId |-> a, userId |-> UserOf(a), isHost |-> TRUE]}
        /\ \E i \in Events(out, "user-joined") :
             out[i].socketId = b /\ out[i].to = {a}
        /\ \E i \in Events(out, "participant-count") :
             out[i].count = 2 /\ out[i].to = {a, b}


\* ---- disconnect --------------------------------------------------------
\* C15: when a connection that is in one or more rooms disconnects, it is
\* removed from the participant map of every room it was in, and every
\* remaining member of each such room is sent user-left for it followed by
\* participant-count carrying the new size.
DisconnectLeavesAll ==
    [][\A s \in Sockets :
         Disconnect(s)
         => \A m \in Meetings :
              /\ ~RoomHas(rooms', m, s)
              /\ RoomHas(rooms, m, s)
                 => LET remaining ==
                          {x \in RoomMembers(rooms', m) : conn'[x] = "open"}
                    IN \E i \in Events(out', "user-left") :
                         /\ out'[i].socketId = s
                         /\ out'[i].meetingId = m
                         /\ remaining \subseteq out'[i].to
                         /\ i < Len(out')
                         /\ out'[i + 1].name = "participant-count"
                         /\ out'[i + 1].meetingId = m
                         /\ out'[i + 1].count = RoomSize(rooms', m)
                         /\ remaining \subseteq out'[i + 1].to]_vars

\* A connection that shared two rooms with another one has disconnected and
\* the other one is told so for both rooms.
LeftTwoRoomsReached ==
    \E s, x \in Sockets :
        /\ conn[s] = "closed" /\ conn[x] = "open"
        /\ \A m \in {1, 2} :
             /\ RoomMembers(rooms, m) = {x}
             /\ \E i \in Events(out, "user-left") :
                  /\ out[i].socketId = s /\ out[i].meetingId = m
                  /\ out[i].to = {x}
                  /\ out[i + 1].name = "participant-count"
                  /\ out[i + 1].count = 1

\* ---- remove-participant against leave-room and disconnect --------------
\* The registry after the remove-participant, leave-room and disconnect
\* handlers have run on registry st with connection states c; a handler of a
\* connection that is not open does not run.
AfterRemove(st, c, h, m, t) ==
    IF c[h] = "open" THEN RemoveFromRoom(st, c, h, m, t) ELSE st

AfterLeave(st, c, t, m) ==
    IF c[t] = "open" THEN HandleLeave(st, t, m) ELSE st

AfterDisconnect(st, t, order) ==
    LeaveAll([st EXCEPT !.adapter = [x \in Meetings |-> st.adapter[x] \ {t}]],
             t, order, 1)

Without(rs, t) ==
    [x \in Meetings |-> [rs[x].map EXCEPT ![t] = NoHandle]]

Maps(rs) == [x \in Meetings |-> rs[x].map]

\* From this state, host h's remove-participant for t and t's own leave-room
\* or disconnect end in the same registry in either order: t is out of the
\* room and every other handle is as it was.
RaceConverges(h, t, m) ==
    LET closed == [conn EXCEPT ![t] = "closed"] IN
    /\ \A rl \in {AfterLeave(AfterRemove(Here, conn, h, m, t),
                             conn, t, m).rooms} :
         /\ rl = AfterRemove(AfterLeave(Here, conn, t, m),
                             conn, h, m, t).rooms
         /\ ~RoomHas(rl, m, t)
         /\ Maps(rl) = [Maps(rooms) EXCEPT ![m] = [@ EXCEPT ![t] = NoHandle]]
    /\ \A order \in RoomOrders :
         \A rd \in {AfterDisconnect(AfterRemove(Here, conn, h, m, t),
                                    t, order).rooms} :
            /\ h # t => rd = AfterRemove(AfterDisconnect(Here, t, order),
                                         closed, h, m, t).rooms
            /\ ~RoomHas(rd, m, t)
            /\ Maps(rd) = Without(rooms, t)

\* C16: for every interleaving of a host's remove-participant for target T
\* with T's own leave-room or disconnect the final registry is the same (T
\* absent from the room, every other handle unchanged), and a
\* remove-participant for a connection that is not in the room changes no
\* room's membership.
RemoveRaceConverges ==
    /\ [](\A h, t \in Sockets, m \in Meetings :
            Ready /\ conn[h] = "open" /\ conn[t] = "open"
              /\ IsHostConn(h, m) /\ RoomHas(rooms, m, t)
            => RaceConverges(h, t, m))
    /\ [][\A s, t \in Sockets, m \in Meetings :
            ~RoomHas(rooms, m, t) /\ RemoveParticipant(s, m, t)
            => \A x \in Meetings :
                 RoomMembers(rooms', x) = RoomMembers(rooms, x)]_vars

\* The host has asked to remove a connection that was not in the room any
\* more: the room hears user-left and keeps its members.
RemoveAbsentReached ==
    /\ last.name = "remove-participant"
    /\ last.byHost /\ ~last.wasIn
    /\ RoomSize(rooms, last.meetingId) >= 1
    /\ \E i \in Events(out, "user-left") :
         /\ conn[out[i].socketId] = "open"
         /\ out[i].to = RoomMembers(rooms, last.meetingId)

\* ======================================================================
\* Relays: lock-meeting and the WebRTC signaling
\* ======================================================================
\* POST /api/meetings/:meetingId/lock by account u.
ToggleLock(u, m) ==
    /\ out = <<>>
    /\ db[m].exists
    /\ db[m].host = u
    /\ db' = [db EXCEPT ![m].isLocked = ~@]
    /\ out' = <<>>
    /\ UNCHANGED <<conn, rooms, adapter, inflight>>

\* lock-meeting
LockMeeting(s, m, isLocked) ==
    /\ out = <<>>
    /\ conn[s] = "open"
    /\ out' = <<[Evt("meeting-locked", ToRoom(adapter, m)) EXCEPT
                   !.meetingId = m,
                   !.payload = IF isLocked THEN "locked" ELSE "unlocked"]>>
    /\ UNCHANGED <<conn, rooms, adapter, db, inflight>>

\* The targetSocketId argument of offer, answer and ice-candidate: the id of
\* a connection (0 is an id the transport never handed out) or any other
\* string, among them the name of the transport room of a meeting.
Targets ==
    {<<"id", t>> : t \in Sockets \cup {0}} \cup {<<"room", m>> : m \in Meetings}

\* io.to(target): every connection joined to the transport room of that
\* name; each connection is joined to the room named by its own id.
ToTarget(c, ad, tg) ==
    IF tg[1] = "room" THEN ad[tg[2]]
    ELSE IF tg[2] \in Sockets THEN ToSocketId(c, tg[2])
    ELSE {}

SignalKinds == {"offer", "answer", "ice-candidate"}
Payloads == {"sdp-a", "sdp-b"}

\* offer / answer / ice-candidate
Signal(kind, s, tg, payload) ==
    /\ out = <<>>
    /\ conn[s] = "open"
    /\ out' = <<[Evt(kind, ToTarget(conn, adapter, tg)) EXCEPT
                   !.socketId = s, !.payload = payload]>>
    /\ UNCHANGED <<conn, rooms, adapter, db, inflight>>

RelayNext ==
    \/ Flush /\ Aside
    \/ Quiet /\ Aside /\ \E s \in Sockets : Connect(s)
    \/ Quiet /\ Aside /\ \E s \in Sockets, m \in Meetings, tok \in Tokens :
                  JoinRoomStart(s, m, tok)
    \/ Aside /\ \E s \in Sockets, ok \in BOOLEAN : JoinRoomFound(s, ok)
    \/ Aside /\ \E s \in Sockets, ok \in BOOLEAN : JoinRoomQueued(s, ok)
    \/ Quiet /\ Aside /\ \E s \in Sockets : Disconnect(s)
    \/ Quiet /\ Aside /\ \E u \in Users, m \in Meetings : ToggleLock(u, m)
    \/ Quiet /\ Aside /\ \E s \in Sockets, m \in Meetings, l \in BOOLEAN :
                  LockMeeting(s, m, l)
    \/ Quiet /\ Aside /\ \E k \in SignalKinds, s \in Sockets, tg \in Targets,
                            p \in Payloads : Signal(k, s, tg, p)

RelaySpec == Init /\ [][RelayNext]_vars

\* C12: a lock-meeting event from a connection that has no handle with
\* isHost = true in that room is ignored: no meeting-locked event reaches a
\* connection and the lock state of no meeting document changes.
NonHostLockIgnored ==
    [][\A s \in Sockets, m \in Meetings, l \in BOOLEAN :
         ~IsHostConn(s, m) /\ LockMeeting(s, m, l)
         => /\ \A i \in Events(out', "meeting-locked") : out'[i].to = {}
            /\ \A x \in Meetings : db'[x].isLocked = db[x].isLocked]_vars

\* C17: each offer, answer or ice-candidate message is delivered only to the
\* connection whose connection-id equals the message's target, with the
\* payload unchanged and tagged with the sender's connection-id; when no
\* connection has that id nothing is delivered to any connection and no
\* error is sent to the sender.
SignalOnlyToTarget ==
    [][\A k \in SignalKinds, s \in Sockets, tg \in Targets, p \in Payloads :
         Signal(k, s, tg, p)
         => LET dest == IF tg[1] = "id" /\ tg[2] \in Sockets
                           /\ conn[tg[2]] = "open"
                        THEN {tg[2]} ELSE {}
            IN /\ Len(out') = 1
               /\ out'[1].name = k
               /\ out'[1].to = dest
               /\ out'[1].socketId = s
               /\ out'[1].payload = p]_vars

\* ======================================================================
\* Engagement updates
\* ======================================================================
MaxSeconds == 3      \* seconds on record in the store, over all documents
MaxDelta == 2        \* largest delta a client sends
Percent == 100
ScoreMax == 100

\* speakingTimeDelta / cameraOnTimeDelta of engagement-update: missing, or a
\* number of seconds.
Deltas ==
    {[given |-> FALSE, value |-> 0]} \cup
    {[given |-> TRUE, value |-> v] : v \in (0 - MaxDelta)..MaxDelta}

\* `delta || 0`
OrZero(d) == IF d.given /\ d.value # 0 THEN d.value ELSE 0

\* Math.round of the quotient n / d (d # 0): the nearest integer, halves up.
Round(n, d) ==
    LET nn == IF d < 0 THEN 0 - n ELSE n
        dd == IF d < 0 THEN 0 - d ELSE d
    IN (2 * nn + dd) \div (2 * dd)

Min(a, b) == IF a < b THEN a ELSE b

\* scores.reduce((s, e) => s + (e.speakingTime || 0), 0) over the documents
\* of one meeting
RECURSIVE SumSpeaking(_, _)
SumSpeaking(docs, us) ==
    IF us = {} THEN 0
    ELSE LET u == CHOOSE x \in us : TRUE
         IN (IF docs[u].exists THEN docs[u].speakingTime ELSE 0)
            + SumSpeaking(docs, us \ {u})

\* The seconds on record in the Engagement documents e, signs dropped.
Abs(n) == IF n < 0 THEN 0 - n ELSE n

RECURSIVE SumRecorded(_, _)
SumRecorded(e, ps) ==
    IF ps = {} THEN 0
    ELSE LET p == CHOOSE x \in ps : TRUE
         IN Abs(e[p[1]][p[2]].speakingTime) + Abs(e[p[1]][p[2]].cameraOnTime)
            + SumRecorded(e, ps \ {p})

\* `... || 1`
TotalSpeaking(docs) ==
    LET t == SumSpeaking(docs, Users) IN IF t = 0 THEN 1 ELSE t

\* scores.map(...): one entry per Engagement document of the meeting
Formatted(docs) ==
    {[userId |-> u,
      speakingTime |-> docs[u].speakingTime,
      engagementScore |->
          Min(ScoreMax, Round(docs[u].speakingTime * Percent,
                              TotalSpeaking(docs)))] :
       u \in {x \in Users : docs[x].exists}}

\* engagement-update up to `await Engagement.findOneAndUpdate`: the store
\* applies the upsert with $inc; ok = FALSE is the store throwing.
EngagementUpdate(s, m, sd, cd, ok) ==
    LET u == UserOf(s)
        doc == eng[m][u]
        upserted == [eng EXCEPT ![m][u] =
                       [exists |-> TRUE,
                        speakingTime |-> doc.speakingTime + OrZero(sd),
                        cameraOnTime |-> doc.cameraOnTime + OrZero(cd)]]
    IN
    /\ out = <<>>
    /\ conn[s] = "open"
    /\ inflight[s].pc = "idle"
    /\ NumInflight < MaxInflight
    /\ SumRecorded(upserted, Meetings \X Users) <= MaxSeconds
    /\ out' = <<>>
    /\ IF ok
       THEN /\ eng' = upserted
            /\ inflight' = [inflight EXCEPT ![s] =
                 [pc |-> "scores", meetingId |-> m, joinToken |-> NoToken]]
       ELSE UNCHANGED <<eng, inflight>>
    /\ UNCHANGED <<conn, rooms, adapter, db, last>> /\ Offline

\* engagement-update from the result of Engagement.find to the broadcast.
EngagementScores(s, ok) ==
    LET m == inflight[s].meetingId IN
    /\ out = <<>>
    /\ inflight[s].pc = "scores"
    /\ inflight' = [inflight EXCEPT ![s] = Idle]
    /\ out' = IF ok
              THEN <<[Evt("engagement-scores-update", ToRoom(adapter, m))
                        EXCEPT !.meetingId = m,
                               !.scores = Formatted(eng[m])]>>
              ELSE <<>>
    /\ UNCHANGED <<conn, rooms, adapter, db, eng, last>> /\ Offline

EngagementNext ==
    \/ Flush /\ Aside
    \/ Aside /\ \E s \in Sockets : Connect(s)
    \/ \E s \in Sockets, m \in Meetings, sd, cd \in Deltas, ok \in BOOLEAN :
         EngagementUpdate(s, m, sd, cd, ok)
    \/ \E s \in Sockets, ok \in BOOLEAN : EngagementScores(s, ok)

EngagementSpec == Init /\ [][EngagementNext]_vars

\* C18: in every engagement-scores-update broadcast each participant's
\* engagementScore is an integer in [0, 100] and equals
\* round(min(100, speakingTime / T * 100)), T being the sum of speakingTime
\* over the meeting's engagement documents, floored at 1.
ScoresInRange ==
    \A i \in Events(out, "engagement-scores-update") :
        LET docs == eng[out[i].meetingId]
            sum == SumSpeaking(docs, Users)
            T == IF sum < 1 THEN 1 ELSE sum
        IN \A sc \in out[i].scores :
             /\ sc.engagementScore \in 0..ScoreMax
             /\ sc.engagementScore =
                  Min(ScoreMax, Round(docs[sc.userId].speakingTime * Percent, T))

\* C19: an engagement update treats a negative or missing speakingTimeDelta
\* or cameraOnTimeDelta as zero: no stored speakingTime or cameraOnTime ever
\* decreases.
TimesNeverDecrease ==
    [][\A m \in Meetings, u \in Users :
         /\ eng'[m][u].speakingTime >= eng[m][u].speakingTime
         /\ eng'[m][u].cameraOnTime >= eng[m][u].cameraOnTime]_vars

\* ======================================================================
\* Chat
\* ======================================================================
ChatLimit == 500
MaxRuns == 3         \* runs of equal characters in a message
MaxChatLog == 1      \* chat entries persisted, over all meetings

\* A text is a sequence of runs: n copies of character ch.
Runs ==
    {[ch |-> " ", n |-> 1],
     [ch |-> "a", n |-> 1], [ch |-> "a", n |-> ChatLimit - 1],
     [ch |-> "b", n |-> ChatLimit + 1]}
Texts == UNION {[1..k -> Runs] : k \in 0..MaxRuns}

IsSpace(run) == run.ch = " "

\* String.prototype.trim
RECURSIVE TrimStart(_)
TrimStart(t) ==
    IF t = <<>> THEN <<>>
    ELSE IF IsSpace(Head(t)) THEN TrimStart(Tail(t)) ELSE t

RECURSIVE TrimEnd(_)
TrimEnd(t) ==
    IF t = <<>> THEN <<>>
    ELSE IF IsSpace(t[Len(t)]) THEN TrimEnd(SubSeq(t, 1, Len(t) - 1)) ELSE t

Trim(t) == TrimEnd(TrimStart(t))

\* String.prototype.slice(0, k)
RECURSIVE Slice(_, _)
Slice(t, k) ==
    IF t = <<>> \/ k <= 0 THEN <<>>
    ELSE IF Head(t).n <= k
    THEN <<Head(t)>> \o Slice(Tail(t), k - Head(t).n)
    ELSE <<[ch |-> Head(t).ch, n |-> k]>>

\* message.slice(0, 500).trim()
SanitizeSliceFirst(t) == Trim(Slice(t, ChatLimit))

\* message.trim().slice(0, 500)
Sanitize(t) == Slice(Trim(t), ChatLimit)

RECURSIVE Persisted(_, _)
Persisted(d, ms) ==
    IF ms = {} THEN 0
    ELSE LET m == CHOOSE x \in ms : TRUE
         IN Len(d[m].chatMessages) + Persisted(d, ms \ {m})

\* chat-message; ok = FALSE is Meeting.findOneAndUpdate throwing (swallowed).
\* A missing message returns as the empty text does. Of the payload the text
\* is kept in the event and the userId in the persisted entry.
ChatMessage(s, m, text, ok) ==
    /\ out = <<>>
    /\ conn[s] = "open"
    /\ Persisted(db, Meetings) < MaxChatLog
    /\ IF Trim(text) = <<>>
       THEN /\ out' = <<>>
            /\ UNCHANGED db
       ELSE /\ out' = <<[Evt("chat-message", ToRoom(adapter, m)) EXCEPT
                           !.meetingId = m,
                           !.text = Sanitize(text)]>>
            /\ db' = IF ok /\ db[m].exists
                     THEN [db EXCEPT ![m].chatMessages = Append(@, UserOf(s))]
                     ELSE db
    /\ UNCHANGED <<conn, rooms, adapter, inflight>>

\* Every connection is open and has been admitted by join-room to meeting 1.
ChatInit ==
    /\ conn = [s \in Sockets |-> "open"]
    /\ rooms = [m \in Meetings |->
                  IF m = 1
                  THEN [exists |-> TRUE,
                        map |-> [s \in Sockets |->
                                   [present |-> TRUE, userId |-> UserOf(s),
                                    isHost |-> HostOf(1) = UserOf(s)]]]
                  ELSE NoRoom]
    /\ adapter = [m \in Meetings |-> IF m = 1 THEN Sockets ELSE {}]
    /\ db = [m \in Meetings |-> CreatedDoc(m)]
    /\ inflight = [s \in Sockets |-> Idle]
    /\ out = <<>>
    /\ eng = NoEngagements
    /\ last = NoEvent
    /\ http = NoRequests
    /\ disk = {}
    /\ transcripts = NoTranscripts

ChatNext ==
    \/ Return
    \/ /\ last = NoEvent
       /\ \E s \in Sockets, m \in Meetings, text \in Texts, ok \in BOOLEAN :
          /\ ChatMessage(s, m, text, ok)
          /\ last' = [NoEvent EXCEPT !.name = "chat-message",
                                     !.meetingId = m, !.text = text]
          /\ UNCHANGED eng /\ Offline

ChatSpec == ChatInit /\ [][ChatNext]_vars

\* The characters of a text, by position.
RECURSIVE Length(_)
Length(t) == IF t = <<>> THEN 0 ELSE Head(t).n + Length(Tail(t))

RECURSIVE CharAt(_, _)
CharAt(t, i) ==
    IF i <= Head(t).n THEN Head(t).ch ELSE CharAt(Tail(t), i - Head(t).n)

\* The number of whitespace characters a text starts with and ends with.
LeadingSpaces(t) ==
    CHOOSE k \in 0..Length(t) :
        /\ \A i \in 1..k : CharAt(t, i) = " "
        /\ k < Length(t) => CharAt(t, k + 1) # " "

TrailingSpaces(t) ==
    CHOOSE k \in 0..Length(t) :
        /\ \A i \in 1..k : CharAt(t, Length(t) + 1 - i) = " "
        /\ k < Length(t) => CharAt(t, Length(t) - k) # " "

\* C20: for every chat-message event the text broadcast to the room is the
\* input trimmed of surrounding whitespace and cut to at most 500 characters,
\* and an empty or whitespace-only message produces no broadcast and no
\* persisted chat entry.
ChatTextSanitized ==
    [][\A text \in {last'.text}, m \in {last'.meetingId} :
         /\ last'.name = "chat-message"
         /\ \E s \in Sockets, ok \in BOOLEAN : ChatMessage(s, m, text, ok)
         => \A len \in {Length(text)}, lead \in {LeadingSpaces(text)} :
              IF lead = len
              THEN out' = <<>> /\ db' = db
              ELSE \A core \in {len - lead - TrailingSpaces(text)} :
                     /\ Len(out') = 1
                     /\ out'[1].name = "chat-message"
                     /\ out'[1].to = adapter[m]
                     /\ Length(out'[1].text) = Min(core, ChatLimit)
                     /\ \A i \in 1..Min(core, ChatLimit) :
                          CharAt(out'[1].text, i) = CharAt(text, lead + i)
  ]_vars

\* A message over the limit that starts with whitespace has reached every
\* member of the room cut to 500 characters and is persisted.
LongChatCutReached ==
    /\ last.name = "chat-message"
    /\ Length(last.text) > ChatLimit
    /\ last.text[1].ch = " "
    /\ Len(out) = 1
    /\ out[1].name = "chat-message"
    /\ out[1].to = Sockets
    /\ Length(out[1].text) = ChatLimit
    /\ Len(db[out[1].meetingId].chatMessages) = 1

\* ======================================================================
\* The participant map against the connections and the transport rooms
\* ======================================================================
\* C21: while a connection remains in a room its handle never changes: the
\* accountId and isHost stored at admission stay the same until the handle
\* is removed.
HandleNeverChanges ==
    [][\A m \in Meetings, s \in Sockets :
         RoomHas(rooms, m, s) /\ RoomHas(rooms', m, s)
         => rooms'[m].map[s] = rooms[m].map[s]]_vars

\* C23: every connection-id present in a room's participant map belongs to
\* a currently connected connection.
MembersAreConnected ==
    \A m \in Meetings, s \in Sockets : RoomHas(rooms, m, s) => conn[s] = "open"

\* C24: after every event the connections that receive a room's broadcasts
\* are the connection-ids of that room's participant map.
TransportRoomIsMap ==
    \A m \in Meetings : adapter[m] = RoomMembers(rooms, m)

\* C26: end-meeting from a connection whose handle in that room is not
\* flagged isHost changes no registry state and broadcasts nothing.
NonHostEndIgnored ==
    [][\A s \in Sockets, m \in Meetings :
         ~IsHostConn(s, m) /\ EndMeeting(s, m)
         => /\ rooms' = rooms
            /\ \A i \in 1..Len(out') : out'[i].to = {}]_vars

\* C27: a handle with isHost = true exists in a room only for a connection
\* whose authenticated account id is the host id of that meeting.
HostFlagOnlyForHost ==
    \A m \in Meetings, s \in Sockets :
        IsHostConn(s, m)
        => /\ db[m].exists
           /\ UserOf(s) = db[m].host
           /\ rooms[m].map[s].userId = db[m].host

\* The host of a meeting and another account share its room: the one is
\* flagged isHost, the other is not.
HostAndGuestReached ==
    \E m \in Meetings, h, t \in Sockets :
        /\ IsHostConn(h, m)
        /\ RoomHas(rooms, m, t)
        /\ UserOf(t) # db[m].host
        /\ ~rooms[m].map[t].isHost

\* ======================================================================
\* Room broadcast: meeting controls and screen share
\* ======================================================================
BroadcastKinds ==
    {"toggle-audio", "toggle-video", "raise-hand", "speaking",
     "screen-share-started", "screen-share-stopped"}

\* The event each handler emits.
Emitted(kind) ==
    CASE kind = "toggle-audio" -> "user-audio-toggle"
      [] kind = "toggle-video" -> "user-video-toggle"
      [] kind = "raise-hand" -> "hand-raised"
      [] kind = "speaking" -> "user-speaking"
      [] OTHER -> kind

\* toggle-audio, toggle-video, raise-hand, speaking, screen-share-started and
\* screen-share-stopped; flag is isMuted, isCameraOn, raised or isSpeaking.
\* raise-hand goes out with io.to, the others with socket.to.
RoomBroadcast(kind, s, m, flag) ==
    /\ out = <<>>
    /\ conn[s] = "open"
    /\ out' = <<[Evt(Emitted(kind),
                     IF kind = "raise-hand" THEN ToRoom(adapter, m)
                     ELSE ToRoomExcept(adapter, m, s)) EXCEPT
                   !.meetingId = m, !.socketId = s,
                   !.payload = IF kind \in {"screen-share-started",
                                            "screen-share-stopped"} THEN ""
                               ELSE IF flag THEN "true" ELSE "false"]>>
    /\ UNCHANGED <<conn, rooms, adapter, db, inflight>>

BroadcastNext ==
    \/ Flush /\ Aside
    \/ Quiet /\ Aside /\ \E s \in Sockets : Connect(s)
    \/ Quiet /\ Aside /\ \E s \in Sockets, m \in Meetings, tok \in Tokens :
                  JoinRoomStart(s, m, tok)
    \/ Aside /\ \E s \in Sockets, ok \in BOOLEAN : JoinRoomFound(s, ok)
    \/ Aside /\ \E s \in Sockets, ok \in BOOLEAN : JoinRoomQueued(s, ok)
    \/ Quiet /\ Aside /\ \E s, t \in Sockets, m \in Meetings :
                  RemoveParticipant(s, m, t)
    \/ Quiet /\ Aside /\ \E kind \in BroadcastKinds, s \in Sockets,
                            m \in Meetings, flag \in BOOLEAN :
                  RoomBroadcast(kind, s, m, flag)
    \/ Quiet /\ Aside /\ \E s \in Sockets, m \in Meetings, text \in Texts,
                            ok \in BOOLEAN : ChatMessage(s, m, text, ok)

BroadcastSpec == Init /\ [][BroadcastNext]_vars

\* C25: a chat-message, raise-hand, toggle-audio, toggle-video, speaking or
\* screen-share event from a connection that is not in the room's
\* participant map reaches nobody in that room.
OnlyMembersBroadcast ==
    [][\A s \in Sockets, m \in Meetings :
         /\ ~RoomHas(rooms, m, s)
         /\ \/ \E kind \in BroadcastKinds, flag \in BOOLEAN :
                 RoomBroadcast(kind, s, m, flag)
            \/ \E text \in Texts, ok \in BOOLEAN : ChatMessage(s, m, text, ok)
         => \A i \in 1..Len(out') : out'[i].to = {}]_vars

\* ======================================================================
\* The meeting controllers: joinMeeting and endMeeting
\* ======================================================================
\* req.user of optionalAuth: an account, or "" for a caller without a
\* valid login token.
Accounts == {"u1", "u2"}
Callers == Accounts \cup {""}

\* req.body.password: missing, the password of the odd meetings, another.
Passwords == {"", "secret", "wrong"}

\* The document as Meeting.create leaves it: status defaults to 'waiting'.
NewDoc(m) == [CreatedDoc(m) EXCEPT !.status = "waiting"]

\* The document of meeting m as joinMeeting can find it: removed, or waiting,
\* active or ended, locked or not, past expiresAt or not.
JoinDocs(m) ==
    {NoMeeting} \cup
    {[NewDoc(m) EXCEPT !.status = st, !.isLocked = lk, !.expired = ex] :
       st \in {"waiting", "active", "ended"}, lk \in BOOLEAN, ex \in BOOLEAN}

\* res.status(code).json(...) without a token; the answered request keeps
\* only its response.
Answered(q, code) ==
    [NoRequest EXCEPT !.op = q.op, !.pc = "done", !.status = code]

\* jwt.sign({meetingId, authorized: true}) and res.json
Issued(q) ==
    [NoRequest EXCEPT !.op = q.op, !.pc = "done", !.status = 200,
                      !.joinToken = JoinTokenFor(q.meetingId)]

\* The checks of joinMeeting on the document it fetched, up to the password
\* comparison: the status code of the refusal, or 0 to go on.
\* The checks without the one of isLocked.
JoinChecksNoLock(d, password) ==
    IF ~d.exists THEN 404
    ELSE IF d.expired THEN 410
    ELSE IF d.status = "ended" THEN 410
    ELSE IF d.isPasswordProtected /\ password = "" THEN 401
    ELSE 0

JoinChecks(d, password) ==
    IF ~d.exists THEN 404
    ELSE IF d.expired THEN 410
    ELSE IF d.status = "ended" THEN 410
    ELSE IF d.isLocked THEN 403
    ELSE IF d.isPasswordProtected /\ password = "" THEN 401
    ELSE 0

\* MeetingSchema.methods.comparePassword
ComparePassword(d, candidate) ==
    IF d.meetingPassword = NoPassword THEN TRUE
    ELSE Compare(candidate, d.meetingPassword)

\* joinMeeting from "Add participant if logged in" on.
JoinAfterStatus(q) ==
    IF q.user # "" THEN [q EXCEPT !.pc = "addParticipant"] ELSE Issued(q)

\* joinMeeting from "Update status to active if still waiting" on.
JoinAfterPassword(q) ==
    IF q.doc.status = "waiting"
    THEN [q EXCEPT !.doc.status = "active", !.dirty = TRUE, !.pc = "save"]
    ELSE JoinAfterStatus(q)

\* The requests are sent in the order of their numbers.
Unsent(r) ==
    /\ http[r].pc = "new"
    /\ \A x \in Requests : x < r => http[x].pc # "new"

Sockless == UNCHANGED <<conn, rooms, adapter, inflight, out, eng, last>>

\* joinMeeting up to `await Meeting.findOne`; m = 0 is a missing meetingId.
JoinMeetingStart(r, m, password, user) ==
    /\ Unsent(r)
    /\ LET q == [NoRequest EXCEPT !.op = "joinMeeting", !.meetingId = m,
                                  !.password = password, !.user = user]
       IN http' = [http EXCEPT ![r] =
                     IF m = 0 THEN Answered(q, 400)
                     ELSE [q EXCEPT !.pc = "findOne"]]
    /\ UNCHANGED <<db, disk, transcripts>>
    /\ Sockless

\* joinMeeting from the result of findOne to `await comparePassword`, to
\* `await meeting.save()` or further; ok = FALSE is the store throwing.
JoinMeetingFound(r, ok) ==
    /\ http[r].op = "joinMeeting" /\ http[r].pc = "findOne"
    /\ LET q == [http[r] EXCEPT !.doc = db[http[r].meetingId]]
           refusal == JoinChecks(q.doc, q.password)
       IN http' = [http EXCEPT ![r] =
                     IF ~ok THEN Answered(q, 500)
                     ELSE IF refusal # 0 THEN Answered(q, refusal)
                     ELSE IF q.doc.isPasswordProtected
                     THEN [q EXCEPT !.pc = "compare"]
                     ELSE JoinAfterPassword(q)]
    /\ UNCHANGED <<db, disk, transcripts>>
    /\ Sockless

\* joinMeeting from the result of comparePassword on; ok = FALSE is bcrypt
\* throwing.
JoinMeetingCompared(r, ok) ==
    /\ http[r].op = "joinMeeting" /\ http[r].pc = "compare"
    /\ LET q == http[r]
       IN http' = [http EXCEPT ![r] =
                     IF ~ok THEN Answered(q, 500)
                     ELSE IF ~ComparePassword(q.doc, q.password)
                     THEN Answered(q, 401)
                     ELSE JoinAfterPassword(q)]
    /\ UNCHANGED <<db, disk, transcripts>>
    /\ Sockless

\* meeting.save(): the store sets the modified paths of the document, here
\* status; it throws when the document is gone.
Save(d, q) ==
    IF q.dirty THEN [d EXCEPT ![q.meetingId].status = q.doc.status] ELSE d

\* joinMeeting from the result of meeting.save() on.
JoinMeetingSaved(r, ok) ==
    /\ http[r].op = "joinMeeting" /\ http[r].pc = "save"
    /\ LET q == http[r]
       IN IF ok /\ db[q.meetingId].exists
          THEN /\ db' = Save(db, q)
               /\ http' = [http EXCEPT ![r] = JoinAfterStatus(q)]
          ELSE /\ UNCHANGED db
               /\ http' = [http EXCEPT ![r] = Answered(q, 500)]
    /\ UNCHANGED <<disk, transcripts>>
    /\ Sockless

\* joinMeeting from the result of Meeting.findByIdAndUpdate($addToSet
\* participants) to `await User.findByIdAndUpdate`.
JoinMeetingAddParticipant(r, ok) ==
    /\ http[r].op = "joinMeeting" /\ http[r].pc = "addParticipant"
    /\ LET q == http[r]
       IN IF ok
          THEN /\ db' = IF db[q.meetingId].exists
                        THEN [db EXCEPT ![q.meetingId].participants =
                                @ \cup {q.user}]
                        ELSE db
               /\ http' = [http EXCEPT ![r].pc = "addJoined"]
          ELSE /\ UNCHANGED db
               /\ http' = [http EXCEPT ![r] = Answered(q, 500)]
    /\ UNCHANGED <<disk, transcripts>>
    /\ Sockless

\* joinMeeting from the result of User.findByIdAndUpdate to the response.
JoinMeetingAddJoined(r, ok) ==
    /\ http[r].op = "joinMeeting" /\ http[r].pc = "addJoined"
    /\ http' = [http EXCEPT ![r] =
                  IF ok THEN Issued(http[r]) ELSE Answered(http[r], 500)]
    /\ UNCHANGED <<db, disk, transcripts>>
    /\ Sockless

\* endMeeting up to `await Meeting.findOne`; the route is behind `protect`.
EndMeetingStart(r, m, user) ==
    /\ Unsent(r)
    /\ http' = [http EXCEPT ![r] =
                  [NoRequest EXCEPT !.op = "endMeeting", !.pc = "findOne",
                                    !.meetingId = m, !.user = user]]
    /\ UNCHANGED <<db, disk, transcripts>>
    /\ Sockless

\* endMeeting from the result of findOne to `await meeting.save()`.
EndMeetingFound(r, ok) ==
    /\ http[r].op = "endMeeting" /\ http[r].pc = "findOne"
    /\ LET q == [http[r] EXCEPT !.doc = db[http[r].meetingId]]
       IN http' = [http EXCEPT ![r] =
                     IF ~ok THEN Answered(q, 500)
                     ELSE IF ~q.doc.exists THEN Answered(q, 404)
                     ELSE IF q.doc.host # q.user THEN Answered(q, 403)
                     ELSE [q EXCEPT !.dirty = q.doc.status # "ended",
                                    !.doc.status = "ended", !.pc = "save"]]
    /\ UNCHANGED <<db, disk, transcripts>>
    /\ Sockless

\* endMeeting from the result of meeting.save() to the response; the save of
\* the summary that may follow writes no status.
EndMeetingSaved(r, ok) ==
    /\ http[r].op = "endMeeting" /\ http[r].pc = "save"
    /\ LET q == http[r]
       IN IF ok /\ db[q.meetingId].exists
          THEN /\ db' = Save(db, q)
               /\ http' = [http EXCEPT ![r] = Answered(q, 200)]
          ELSE /\ UNCHANGED db
               /\ http' = [http EXCEPT ![r] = Answered(q, 500)]
    /\ UNCHANGED <<disk, transcripts>>
    /\ Sockless

\* No controller is between its request and its response.
Calm == \A r \in Requests : http[r].pc \in {"new", "done"}

\* joinMeeting dispatched one request at a time, over every document.
JoinInit ==
    /\ conn = [s \in Sockets |-> "new"]
    /\ rooms = [m \in Meetings |-> NoRoom]
    /\ adapter = [m \in Meetings |-> {}]
    /\ \E m \in Meetings : \E doc \in JoinDocs(m) :
          db = [[x \in Meetings |-> NewDoc(x)] EXCEPT ![m] = doc]
    /\ inflight = [s \in Sockets |-> Idle]
    /\ out = <<>>
    /\ eng = NoEngagements
    /\ last = NoEvent
    /\ http = NoRequests
    /\ disk = {}
    /\ transcripts = NoTranscripts

JoinNext ==
    \/ /\ Calm
       /\ \E r \in Requests, m \in Meetings \cup {0}, password \in Passwords,
             user \in Callers : JoinMeetingStart(r, m, password, user)
    \/ \E r \in Requests, ok \in BOOLEAN : JoinMeetingFound(r, ok)
    \/ \E r \in Requests, ok \in BOOLEAN : JoinMeetingCompared(r, ok)
    \/ \E r \in Requests, ok \in BOOLEAN : JoinMeetingSaved(r, ok)
    \/ \E r \in Requests, ok \in BOOLEAN : JoinMeetingAddParticipant(r, ok)
    \/ \E r \in Requests, ok \in BOOLEAN : JoinMeetingAddJoined(r, ok)

JoinSpec == JoinInit /\ [][JoinNext]_vars

\* The conditions under which a join token is due, on the stored document.
Allowed(m, password) ==
    /\ m # 0
    /\ db[m].exists
    /\ ~db[m].expired
    /\ db[m].status # "ended"
    /\ ~db[m].isLocked
    /\ db[m].isPasswordProtected => db[m].meetingPassword = Hash(password)

\* C22: joinMeeting issues a join token only when the meeting exists, has
\* not expired, is not ended, is not locked and, if password-protected, the
\* supplied password matches; every other request gets an error response
\* without a token and changes neither the meeting's status nor its
\* participant list.
JoinTokenOnlyWhenAllowed ==
    [][\A r \in Requests :
         http'[r] # http[r] /\ http'[r].op = "joinMeeting"
         => \A q \in {IF http[r].pc = "new" THEN http'[r] ELSE http[r]} :
              /\ http'[r].joinToken # NoToken
                 => /\ Allowed(q.meetingId, q.password)
                    /\ http'[r].status = 200
                    /\ http'[r].joinToken = JoinTokenFor(q.meetingId)
              /\ ~Allowed(q.meetingId, q.password)
                 => /\ \A m \in Meetings :
                         /\ db'[m].status = db[m].status
                         /\ db'[m].participants = db[m].participants
                    /\ http'[r].pc \in {"findOne", "compare", "done"}
                    /\ http'[r].pc = "done"
                       => /\ http'[r].status >= 400
                          /\ http'[r].joinToken = NoToken]_vars

\* A logged-in caller got a token for a password-protected meeting, which
\* is now active and lists the caller; another request was refused.
TokenIssuedReached ==
    \E r, x \in Requests, m \in Meetings :
        /\ http[r].pc = "done"
        /\ http[r].joinToken = JoinTokenFor(m)
        /\ db[m].isPasswordProtected
        /\ db[m].status = "active"
        /\ db[m].participants # {}
        /\ http[x].pc = "done" /\ http[x].status = 401

\* ---- joinMeeting and endMeeting running concurrently ---------------------
\* Every meeting is as Meeting.create left it; the controllers of the
\* requests take turns at their awaits.
StatusInit ==
    /\ conn = [s \in Sockets |-> "new"]
    /\ rooms = [m \in Meetings |-> NoRoom]
    /\ adapter = [m \in Meetings |-> {}]
    /\ db = [m \in Meetings |-> NewDoc(m)]
    /\ inflight = [s \in Sockets |-> Idle]
    /\ out = <<>>
    /\ eng = NoEngagements
    /\ last = NoEvent
    /\ http = NoRequests
    /\ disk = {}
    /\ transcripts = NoTranscripts

StatusNext ==
    \/ \E r \in Requests, m \in Meetings \cup {0}, password \in Passwords,
          user \in Callers : JoinMeetingStart(r, m, password, user)
    \/ \E r \in Requests, ok \in BOOLEAN : JoinMeetingFound(r, ok)
    \/ \E r \in Requests, ok \in BOOLEAN : JoinMeetingCompared(r, ok)
    \/ \E r \in Requests, ok \in BOOLEAN : JoinMeetingSaved(r, ok)
    \/ \E r \in Requests, ok \in BOOLEAN : JoinMeetingAddParticipant(r, ok)
    \/ \E r \in Requests, ok \in BOOLEAN : JoinMeetingAddJoined(r, ok)
    \/ \E r \in Requests, m \in Meetings, user \in Accounts :
          EndMeetingStart(r, m, user)
    \/ \E r \in Requests, ok \in BOOLEAN : EndMeetingFound(r, ok)
    \/ \E r \in Requests, ok \in BOOLEAN : EndMeetingSaved(r, ok)

StatusSpec == StatusInit /\ [][StatusNext]_vars

Rank(status) ==
    CASE status = "waiting" -> 0
      [] status = "active" -> 1
      [] status = "ended" -> 2

\* C28: a meeting's stored status only moves forward from waiting to active
\* to ended; once ended it never becomes active or waiting again.
StatusOnlyForward ==
    [][\A m \in Meetings :
         db[m].exists /\ db'[m].exists
         => Rank(db'[m].status) >= Rank(db[m].status)]_vars

\* ======================================================================
\* The transcript controllers: saveTextTranscript and uploadAndTranscribe
\* ======================================================================
\* req.body.text of saveTextTranscript: the texts of at most two characters.
SegmentTexts == {t \in Texts : Length(t) <= 2}

\* What transcribeAudio gives: it throws, or it returns a text that is
\* empty after trimming, or speech.
Transcriptions == {"throws", "silence", "speech"}

\* fs.unlinkSync(req.file.path) under fs.existsSync
Unlink(d, r) == d \ {r}

\* `${speakerName}: ${cleanText}` appended to the transcript that was
\* fetched; the line is kept as the number of its request.
Appended(d, q, r) ==
    IF d[q.meetingId].exists
    THEN [d EXCEPT ![q.meetingId].transcript = q.doc.transcript \o <<r>>]
    ELSE d

\* saveTextTranscript up to `await Meeting.findOne`; m = 0 is a missing
\* meetingId.
SaveTextStart(r, m, text, user) ==
    /\ Unsent(r)
    /\ LET q == [NoRequest EXCEPT !.op = "saveTextTranscript",
                                  !.meetingId = m, !.user = user]
       IN http' = [http EXCEPT ![r] =
                     IF m = 0 \/ text = <<>> THEN Answered(q, 400)
                     ELSE IF Length(Trim(text)) < 2 THEN Answered(q, 200)
                     ELSE [q EXCEPT !.pc = "findOne"]]
    /\ UNCHANGED <<db, disk, transcripts>>
    /\ Sockless

\* saveTextTranscript from the result of findOne to `await Transcript.create`
SaveTextFound(r, ok) ==
    /\ http[r].op = "saveTextTranscript" /\ http[r].pc = "findOne"
    /\ LET q == [http[r] EXCEPT !.doc = db[http[r].meetingId]]
       IN http' = [http EXCEPT ![r] =
                     IF ~ok THEN Answered(q, 500)
                     ELSE IF ~q.doc.exists THEN Answered(q, 404)
                     ELSE [q EXCEPT !.pc = "create"]]
    /\ UNCHANGED <<db, disk, transcripts>>
    /\ Sockless

\* Both controllers from the result of Transcript.create to
\* `await Meeting.findOneAndUpdate`.
SegmentCreated(r, ok) ==
    /\ http[r].op \in {"saveTextTranscript", "uploadAndTranscribe"}
    /\ http[r].pc = "create"
    /\ IF ok
       THEN /\ transcripts' = [transcripts EXCEPT ![http[r].meetingId] =
                                 Append(@, r)]
            /\ http' = [http EXCEPT ![r].pc = "append"]
       ELSE /\ UNCHANGED transcripts
            /\ http' = [http EXCEPT ![r] = Answered(http[r], 500)]
    /\ UNCHANGED <<db, disk>>
    /\ Sockless

\* Both controllers from the result of Meeting.findOneAndUpdate($set
\* transcript) to the response.
SegmentAppended(r, ok) ==
    /\ http[r].op \in {"saveTextTranscript", "uploadAndTranscribe"}
    /\ http[r].pc = "append"
    /\ IF ok
       THEN /\ db' = Appended(db, http[r], r)
            /\ http' = [http EXCEPT ![r] = Answered(http[r], 201)]
       ELSE /\ UNCHANGED db
            /\ http' = [http EXCEPT ![r] = Answered(http[r], 500)]
    /\ UNCHANGED <<disk, transcripts>>
    /\ Sockless

\* upload.single('audio') and uploadAndTranscribe up to
\* `await Meeting.findOne`; file = FALSE is a request without an audio file.
UploadStart(r, file, m, user) ==
    /\ Unsent(r)
    /\ LET q == [NoRequest EXCEPT !.op = "uploadAndTranscribe",
                                  !.meetingId = m, !.user = user]
       IN http' = [http EXCEPT ![r] =
                     IF ~file \/ m = 0 THEN Answered(q, 400)
                     ELSE [q EXCEPT !.pc = "findOne"]]
    /\ disk' = IF file THEN disk \cup {r} ELSE disk
    /\ UNCHANGED <<db, transcripts>>
    /\ Sockless

\* uploadAndTranscribe from the result of findOne to
\* `await transcribeAudio`; ok = FALSE is the store throwing, into the
\* catch block.
UploadFound(r, ok) ==
    /\ http[r].op = "uploadAndTranscribe" /\ http[r].pc = "findOne"
    /\ LET q == [http[r] EXCEPT !.doc = db[http[r].meetingId]]
       IN IF ~ok
          THEN /\ disk' = Unlink(disk, r)
               /\ http' = [http EXCEPT ![r] = Answered(q, 500)]
          ELSE /\ UNCHANGED disk
               /\ http' = [http EXCEPT ![r] =
                             IF ~q.doc.exists THEN Answered(q, 404)
                             ELSE IF q.doc.status = "ended"
                             THEN Answered(q, 400)
                             ELSE [q EXCEPT !.pc = "transcribe"]]
    /\ UNCHANGED <<db, transcripts>>
    /\ Sockless

\* uploadAndTranscribe from the result of transcribeAudio to
\* `await Transcript.create`.
UploadTranscribed(r, result) ==
    /\ http[r].op = "uploadAndTranscribe" /\ http[r].pc = "transcribe"
    /\ disk' = Unlink(disk, r)
    /\ http' = [http EXCEPT ![r] =
                  IF result = "throws" THEN Answered(http[r], 502)
                  ELSE IF result = "silence" THEN Answered(http[r], 200)
                  ELSE [http[r] EXCEPT !.pc = "create"]]
    /\ UNCHANGED <<db, transcripts>>
    /\ Sockless

\* The two controllers taking turns at their awaits, over every document.
TranscriptNext ==
    \/ \E r \in Requests, m \in Meetings \cup {0}, text \in SegmentTexts,
          user \in Accounts : SaveTextStart(r, m, text, user)
    \/ \E r \in Requests, ok \in BOOLEAN : SaveTextFound(r, ok)
    \/ \E r \in Requests, ok \in BOOLEAN : SegmentCreated(r, ok)
    \/ \E r \in Requests, ok \in BOOLEAN : SegmentAppended(r, ok)
    \/ \E r \in Requests, file \in BOOLEAN, m \in Meetings \cup {0},
          user \in Accounts : UploadStart(r, file, m, user)
    \/ \E r \in Requests, ok \in BOOLEAN : UploadFound(r, ok)
    \/ \E r \in Requests, result \in Transcriptions :
          UploadTranscribed(r, result)

TranscriptSpec == JoinInit /\ [][TranscriptNext]_vars

Range(seq) == {seq[i] : i \in 1..Len(seq)}

\* C29: after any set of saveTextTranscript and uploadAndTranscribe requests
\* for one meeting has completed, Meeting.transcript contains one line for
\* each segment that was saved.
EverySegmentAppended ==
    Calm => \A m \in Meetings, r \in Requests :
              /\ db[m].exists
              /\ r \in Range(transcripts[m])
              /\ http[r].status = 201
              => Cardinality({i \in 1..Len(db[m].transcript) :
                                db[m].transcript[i] = r}) = 1

\* C30: no response of uploadAndTranscribe leaves the uploaded file on disk.
UploadRemovedOnResponse ==
    \A r \in Requests :
        http[r].op = "uploadAndTranscribe" /\ http[r].pc = "done"
        => r \notin disk
====
